---------------------------- MODULE Spec2Model ----------------------------
(***************************************************************************)
(* Octavi IFR1 udev rules manager (src/octavi-app.py): the credential      *)
(* cache (PasswordCache), the privileged command runner                    *)
(* (UdevRulesApp.run_sudo_command) and the deferred device search          *)
(* (run_find_octavi_device / find_octavi_device), as a state machine of    *)
(* the single UI thread.                                                   *)
(*                                                                         *)
(* Python str values are sequences of code points, bytes values are        *)
(* sequences of 0..255, and Optional values are None == <<>> or            *)
(* Some(x) == <<x>>.                                                       *)
(***************************************************************************)
EXTENDS Integers, Sequences, FiniteSets, TLC

(***************************************************************************)
(* String literals of the source, as code point sequences.                 *)
(***************************************************************************)
\* 'incorrect password'  (src 401: the needle of the authentication-failure test)
INCORRECT_PASSWORD == << 105, 110, 99, 111, 114, 114, 101, 99, 116, 32, 112, 97, 115, 115, 119, 111, 114, 100 >>
\* 'Error executing command: '  (src 398)
ERROR_PREFIX == << 69, 114, 114, 111, 114, 32, 101, 120, 101, 99, 117, 116, 105, 110, 103, 32, 99, 111, 109, 109, 97, 110, 100, 58, 32 >>
\* 'Operation cancelled.'  (src 383, 500)
MSG_CANCELLED == << 79, 112, 101, 114, 97, 116, 105, 111, 110, 32, 99, 97, 110, 99, 101, 108, 108, 101, 100, 46 >>
\* 'Command executed successfully.'  (src 392)
MSG_SUCCESS == << 67, 111, 109, 109, 97, 110, 100, 32, 101, 120, 101, 99, 117, 116, 101, 100, 32, 115, 117, 99, 99, 101, 115, 115, 102, 117, 108, 108, 121, 46 >>
\* 'Udev rule created. Please reload rules and trigger udev for changes to take effect.'  (src 440)
MSG_RULE_CREATED == << 85, 100, 101, 118, 32, 114, 117, 108, 101, 32, 99, 114, 101, 97, 116, 101, 100, 46, 32, 80, 108, 101, 97, 115, 101, 32, 114, 101, 108, 111, 97, 100, 32, 114, 117, 108, 101, 115, 32, 97, 110, 100, 32, 116, 114, 105, 103, 103, 101, 114, 32, 117, 100, 101, 118, 32, 102, 111, 114, 32, 99, 104, 97, 110, 103, 101, 115, 32, 116, 111, 32, 116, 97, 107, 101, 32, 101, 102, 102, 101, 99, 116, 46 >>
\* 'Created plugdev group.\n'  (src 520)
MSG_GROUP_CREATED == << 67, 114, 101, 97, 116, 101, 100, 32, 112, 108, 117, 103, 100, 101, 118, 32, 103, 114, 111, 117, 112, 46, 10 >>
\* 'Added user '  (src 530)
MSG_ADDED_1 == << 65, 100, 100, 101, 100, 32, 117, 115, 101, 114, 32 >>
\* ' to plugdev group.\nPlease log out and log back in for changes to take effect.'  (src 530-531)
MSG_ADDED_2 == << 32, 116, 111, 32, 112, 108, 117, 103, 100, 101, 118, 32, 103, 114, 111, 117, 112, 46, 10, 80, 108, 101, 97, 115, 101, 32, 108, 111, 103, 32, 111, 117, 116, 32, 97, 110, 100, 32, 108, 111, 103, 32, 98, 97, 99, 107, 32, 105, 110, 32, 102, 111, 114, 32, 99, 104, 97, 110, 103, 101, 115, 32, 116, 111, 32, 116, 97, 107, 101, 32, 101, 102, 102, 101, 99, 116, 46 >>
\* 'User '  (src 535)
MSG_ALREADY_1 == << 85, 115, 101, 114, 32 >>
\* ' is already in the plugdev group.'  (src 535)
MSG_ALREADY_2 == << 32, 105, 115, 32, 97, 108, 114, 101, 97, 100, 121, 32, 105, 110, 32, 116, 104, 101, 32, 112, 108, 117, 103, 100, 101, 118, 32, 103, 114, 111, 117, 112, 46 >>
\* 'Error checking/modifying group: '  (src 539)
MSG_GROUP_ERROR == << 69, 114, 114, 111, 114, 32, 99, 104, 101, 99, 107, 105, 110, 103, 47, 109, 111, 100, 105, 102, 121, 105, 110, 103, 32, 103, 114, 111, 117, 112, 58, 32 >>
\* 'Preparing to search for Octavi IFR1 devices...'  (src 506)
MSG_PREPARING == << 80, 114, 101, 112, 97, 114, 105, 110, 103, 32, 116, 111, 32, 115, 101, 97, 114, 99, 104, 32, 102, 111, 114, 32, 79, 99, 116, 97, 118, 105, 32, 73, 70, 82, 49, 32, 100, 101, 118, 105, 99, 101, 115, 46, 46, 46 >>
\* 'Searching for Octavi IFR1 devices...'  (src 452)
MSG_SEARCHING == << 83, 101, 97, 114, 99, 104, 105, 110, 103, 32, 102, 111, 114, 32, 79, 99, 116, 97, 118, 105, 32, 73, 70, 82, 49, 32, 100, 101, 118, 105, 99, 101, 115, 46, 46, 46 >>
\* 'Found Octavi IFR1 device(s):\n'  (src 477)
MSG_FOUND == << 70, 111, 117, 110, 100, 32, 79, 99, 116, 97, 118, 105, 32, 73, 70, 82, 49, 32, 100, 101, 118, 105, 99, 101, 40, 115, 41, 58, 10 >>
\* 'No Octavi IFR1 devices found.'  (src 486)
MSG_NOT_FOUND == << 78, 111, 32, 79, 99, 116, 97, 118, 105, 32, 73, 70, 82, 49, 32, 100, 101, 118, 105, 99, 101, 115, 32, 102, 111, 117, 110, 100, 46 >>
\* 'Applied chmod 0666 to '  (src 482)
MSG_APPLIED == << 65, 112, 112, 108, 105, 101, 100, 32, 99, 104, 109, 111, 100, 32, 48, 54, 54, 54, 32, 116, 111, 32 >>
\* 'Failed to apply chmod 0666 to '  (src 484)
MSG_FAILED == << 70, 97, 105, 108, 101, 100, 32, 116, 111, 32, 97, 112, 112, 108, 121, 32, 99, 104, 109, 111, 100, 32, 48, 54, 54, 54, 32, 116, 111, 32 >>
\* '\n'  (line feed)
NL == << 10 >>
\* '<br>'  (src 429)
BR == << 60, 98, 114, 62 >>
\* '<b>'  (src 426)
B_OPEN == << 60, 98, 62 >>
\* '</b>'  (src 426)
B_CLOSE == << 60, 47, 98, 62 >>
\* 'octavi ifr1'  (src 425)
OCTAVI_IFR1 == << 111, 99, 116, 97, 118, 105, 32, 105, 102, 114, 49 >>
\* 'echo '  (src 388)
ECHO == << 101, 99, 104, 111, 32 >>
\* ' | sudo -S '  (src 388)
PIPE_SUDO == << 32, 124, 32, 115, 117, 100, 111, 32, 45, 83, 32 >>
\* 'udevadm control --reload-rules'  (src 367)
CMD_RELOAD == << 117, 100, 101, 118, 97, 100, 109, 32, 99, 111, 110, 116, 114, 111, 108, 32, 45, 45, 114, 101, 108, 111, 97, 100, 45, 114, 117, 108, 101, 115 >>
\* 'udevadm trigger'  (src 370)
CMD_TRIGGER == << 117, 100, 101, 118, 97, 100, 109, 32, 116, 114, 105, 103, 103, 101, 114 >>
\* "dmesg | grep -i 'hidraw\\|octavi'"  (src 435)
CMD_DMESG == << 100, 109, 101, 115, 103, 32, 124, 32, 103, 114, 101, 112, 32, 45, 105, 32, 39, 104, 105, 100, 114, 97, 119, 92, 124, 111, 99, 116, 97, 118, 105, 39 >>
\* 'echo "SUBSYSTEM==\\"usb\\", ATTR{idVendor}==\\"04d8\\", ATTR{idProduct}==\\"e6d6\\", MODE=\\"0666\\", GROUP=\\"plugdev\\"" > /etc/udev/rules.d/99-octavi.rules'  (src 438)
CMD_CREATE == << 101, 99, 104, 111, 32, 34, 83, 85, 66, 83, 89, 83, 84, 69, 77, 61, 61, 92, 34, 117, 115, 98, 92, 34, 44, 32, 65, 84, 84, 82, 123, 105, 100, 86, 101, 110, 100, 111, 114, 125, 61, 61, 92, 34, 48, 52, 100, 56, 92, 34, 44, 32, 65, 84, 84, 82, 123, 105, 100, 80, 114, 111, 100, 117, 99, 116, 125, 61, 61, 92, 34, 101, 54, 100, 54, 92, 34, 44, 32, 77, 79, 68, 69, 61, 92, 34, 48, 54, 54, 54, 92, 34, 44, 32, 71, 82, 79, 85, 80, 61, 92, 34, 112, 108, 117, 103, 100, 101, 118, 92, 34, 34, 32, 62, 32, 47, 101, 116, 99, 47, 117, 100, 101, 118, 47, 114, 117, 108, 101, 115, 46, 100, 47, 57, 57, 45, 111, 99, 116, 97, 118, 105, 46, 114, 117, 108, 101, 115 >>
\* 'groupadd plugdev'  (src 519)
CMD_GROUPADD == << 103, 114, 111, 117, 112, 97, 100, 100, 32, 112, 108, 117, 103, 100, 101, 118 >>
\* 'usermod -a -G plugdev '  (src 528)
CMD_USERMOD == << 117, 115, 101, 114, 109, 111, 100, 32, 45, 97, 32, 45, 71, 32, 112, 108, 117, 103, 100, 101, 118, 32 >>
\* '/bin/sh'  (subprocess.run(shell=True) executes /bin/sh -c <command>)
BIN_SH == << 47, 98, 105, 110, 47, 115, 104 >>
\* '-c'
DASH_C == << 45, 99 >>
\* 'sudo'  (src 459, 481)
SUDO == << 115, 117, 100, 111 >>
\* '-S'  (src 459, 481)
DASH_S == << 45, 83 >>
\* 'udevadm'  (src 459)
UDEVADM == << 117, 100, 101, 118, 97, 100, 109 >>
\* 'info'  (src 459)
INFO == << 105, 110, 102, 111 >>
\* '--query=all'  (src 459)
QUERY_ALL == << 45, 45, 113, 117, 101, 114, 121, 61, 97, 108, 108 >>
\* '--name='  (src 459)
NAME_EQ == << 45, 45, 110, 97, 109, 101, 61 >>
\* 'chmod'  (src 481)
CHMOD == << 99, 104, 109, 111, 100 >>
\* '0666'  (src 481)
MODE_0666 == << 48, 54, 54, 54 >>
\* '/dev/hidraw'  (src 455)
DEV_HIDRAW == << 47, 100, 101, 118, 47, 104, 105, 100, 114, 97, 119 >>
\* '04D8'  (src 447)
VENDOR_ID == << 48, 52, 68, 56 >>
\* 'E6D6'  (src 448)
PRODUCT_ID == << 69, 54, 68, 54 >>
\* 'Sorry, try again.\nsudo: 1 incorrect password attempt\n'  (sudo's rejection, C locale)
STDERR_AUTH == << 83, 111, 114, 114, 121, 44, 32, 116, 114, 121, 32, 97, 103, 97, 105, 110, 46, 10, 115, 117, 100, 111, 58, 32, 49, 32, 105, 110, 99, 111, 114, 114, 101, 99, 116, 32, 112, 97, 115, 115, 119, 111, 114, 100, 32, 97, 116, 116, 101, 109, 112, 116, 10 >>
\* 'sudo: 1 Incorrect Password attempt\n'  (the same in mixed case)
STDERR_AUTH_MIXED == << 115, 117, 100, 111, 58, 32, 49, 32, 73, 110, 99, 111, 114, 114, 101, 99, 116, 32, 80, 97, 115, 115, 119, 111, 114, 100, 32, 97, 116, 116, 101, 109, 112, 116, 10 >>
\* 'sudo: 1 Fehlversuch bei der Passwort-Eingabe\n'  (sudo's rejection, German locale)
STDERR_AUTH_DE == << 115, 117, 100, 111, 58, 32, 49, 32, 70, 101, 104, 108, 118, 101, 114, 115, 117, 99, 104, 32, 98, 101, 105, 32, 100, 101, 114, 32, 80, 97, 115, 115, 119, 111, 114, 116, 45, 69, 105, 110, 103, 97, 98, 101, 10 >>
\* 'Failed to send reload request: No such file or directory\n'  (a failure of the command itself)
STDERR_OTHER == << 70, 97, 105, 108, 101, 100, 32, 116, 111, 32, 115, 101, 110, 100, 32, 114, 101, 108, 111, 97, 100, 32, 114, 101, 113, 117, 101, 115, 116, 58, 32, 78, 111, 32, 115, 117, 99, 104, 32, 102, 105, 108, 101, 32, 111, 114, 32, 100, 105, 114, 101, 99, 116, 111, 114, 121, 10 >>
\* 'hidraw0: Octavi IFR1\nusb 1-1\n'  (a command's output)
STDOUT_SAMPLE == << 104, 105, 100, 114, 97, 119, 48, 58, 32, 79, 99, 116, 97, 118, 105, 32, 73, 70, 82, 49, 10, 117, 115, 98, 32, 49, 45, 49, 10 >>
\* 'u'  (os.getenv('USER'))
USER == << 117 >>
\* '04d8'  (a vendor id as udevadm prints it)
ID_04D8_LOWER == << 48, 52, 100, 56 >>
\* 'e6d6'  (a product id as udevadm prints it)
ID_E6D6_LOWER == << 101, 54, 100, 54 >>
\* '046D'  (another vendor's id)
ID_046D == << 48, 52, 54, 68 >>
\* '/etc/udev/rules.d/'  (src 329)
RULES_DIR == << 47, 101, 116, 99, 47, 117, 100, 101, 118, 47, 114, 117, 108, 101, 115, 46, 100, 47 >>
\* 'octavi'  (src 337: the needle of the file name filter)
OCTAVI == << 111, 99, 116, 97, 118, 105 >>
\* 'Directory '  (src 333)
MSG_DIR_1 == << 68, 105, 114, 101, 99, 116, 111, 114, 121, 32 >>
\* ' does not exist.'  (src 333)
MSG_DIR_2 == << 32, 100, 111, 101, 115, 32, 110, 111, 116, 32, 101, 120, 105, 115, 116, 46 >>
\* 'No Octavi rules found.'  (src 345)
MSG_NO_RULES == << 78, 111, 32, 79, 99, 116, 97, 118, 105, 32, 114, 117, 108, 101, 115, 32, 102, 111, 117, 110, 100, 46 >>
\* 'Found '  (src 347)
MSG_FOUND_1 == << 70, 111, 117, 110, 100, 32 >>
\* ' Octavi rule(s).'  (src 347)
MSG_FOUND_2 == << 32, 79, 99, 116, 97, 118, 105, 32, 114, 117, 108, 101, 40, 115, 41, 46 >>
\* '\nSearched directory: '  (src 350)
MSG_SEARCHED == << 10, 83, 101, 97, 114, 99, 104, 101, 100, 32, 100, 105, 114, 101, 99, 116, 111, 114, 121, 58, 32 >>
\* 'All files in directory: '  (src 351)
MSG_ALL_FILES == << 65, 108, 108, 32, 102, 105, 108, 101, 115, 32, 105, 110, 32, 100, 105, 114, 101, 99, 116, 111, 114, 121, 58, 32 >>
\* 'Error listing files: '  (src 354)
MSG_LIST_ERROR == << 69, 114, 114, 111, 114, 32, 108, 105, 115, 116, 105, 110, 103, 32, 102, 105, 108, 101, 115, 58, 32 >>
\* "[Errno 13] Permission denied: '/etc/udev/rules.d/'"  (str(e) of the PermissionError os.listdir raises)
PERMISSION_DENIED == << 91, 69, 114, 114, 110, 111, 32, 49, 51, 93, 32, 80, 101, 114, 109, 105, 115, 115, 105, 111, 110, 32, 100, 101, 110, 105, 101, 100, 58, 32, 39, 47, 101, 116, 99, 47, 117, 100, 101, 118, 47, 114, 117, 108, 101, 115, 46, 100, 47, 39 >>
\* 'PermissionError'  (type(e).__name__)
PERMISSION_ERROR == << 80, 101, 114, 109, 105, 115, 115, 105, 111, 110, 69, 114, 114, 111, 114 >>
\* '99-octavi.rules'  (a file name of the rules directory)
RULES_OCTAVI == << 57, 57, 45, 111, 99, 116, 97, 118, 105, 46, 114, 117, 108, 101, 115 >>
\* '50-other.rules'  (a file name without the needle)
RULES_OTHER == << 53, 48, 45, 111, 116, 104, 101, 114, 46, 114, 117, 108, 101, 115 >>
\* '70-OCTAVI-ifr1.rules'  (a file name with the needle in upper case)
RULES_UPPER == << 55, 48, 45, 79, 67, 84, 65, 86, 73, 45, 105, 102, 114, 49, 46, 114, 117, 108, 101, 115 >>
\* 'Octavi.bak'  (a file name with the needle in mixed case)
RULES_MIXED == << 79, 99, 116, 97, 118, 105, 46, 98, 97, 107 >>
\* 'octav.rules'  (a file name with all of the needle but its last letter)
RULES_NEAR == << 111, 99, 116, 97, 118, 46, 114, 117, 108, 101, 115 >>

(***************************************************************************)
(* Bounds of the model.                                                    *)
(***************************************************************************)
\* the clock stops advancing past this reading
MaxTime == 700
\* a click is taken only while fewer than this many handlers are on the UI
\* thread's call stack
MaxDepth == 2
\* at most this many single-shot timers are pending
MaxTimers == 1
\* at most this many /dev/hidraw* nodes exist while the whole application runs
MaxNodes == 1
\* at most this many /dev/hidraw* nodes exist while only Find Device is used
MaxDevices == 3
\* at most this many files are in the rules directory
MaxFiles == 3

(***************************************************************************)
(* Python values.                                                          *)
(***************************************************************************)
None == << >>
Some(x) == << x >>

\* str.lower() on the ASCII range
Lower(s) == [i \in DOMAIN s |-> IF s[i] \in 65..90 THEN s[i] + 32 ELSE s[i]]

\* str.upper() on the ASCII range
Upper(s) == [i \in DOMAIN s |-> IF s[i] \in 97..122 THEN s[i] - 32 ELSE s[i]]

\* needle in hay
Contains(hay, needle) ==
    \E i \in 1..(Len(hay) - Len(needle) + 1) :
        SubSeq(hay, i, i + Len(needle) - 1) = needle

\* hay.startswith(prefix)
StartsWith(hay, prefix) ==
    /\ Len(prefix) <= Len(hay)
    /\ SubSeq(hay, 1, Len(prefix)) = prefix

\* str.encode(): UTF-8, code points below 0x800
RECURSIVE Utf8Encode(_)
Utf8Encode(s) ==
    IF s = << >> THEN << >>
    ELSE LET cp == Head(s) IN
         (IF cp < 128 THEN << cp >>
          ELSE << 192 + (cp \div 64), 128 + (cp % 64) >>)
         \o Utf8Encode(Tail(s))

\* bytes.decode(): UTF-8, sequences of one or two bytes
RECURSIVE Utf8Decode(_)
Utf8Decode(b) ==
    IF b = << >> THEN << >>
    ELSE IF Head(b) < 128 THEN << Head(b) >> \o Utf8Decode(Tail(b))
    ELSE << (Head(b) - 192) * 64 + (b[2] - 128) >> \o Utf8Decode(Tail(Tail(b)))

\* Fernet(key).encrypt(data): a token bound to the key
FernetEncrypt(k, data) ==
    [key |-> k, ct |-> [i \in DOMAIN data |-> (data[i] + k) % 256]]

\* Fernet(key).decrypt(token); a token of another key is rejected
FernetDecrypt(k, token) ==
    IF token.key # k THEN << 0 - 1 >>
    ELSE [i \in DOMAIN token.ct |-> (token.ct[i] + 256 - k) % 256]

\* the keys Fernet.generate_key() may return
Keys == {3, 200}
\* the key of the application's cache in the runs explored
AppKey == 200

(***************************************************************************)
(* The environment: passwords, the clock, sudo.                            *)
(***************************************************************************)
\* ''
PW_EMPTY == << >>
\* 's3': the password sudo accepts
SudoPassword == << 115, 51 >>
\* 'pä': a password sudo rejects
PW_WRONG == << 112, 228 >>
\* what the user may type into the password dialog
Passwords == {PW_EMPTY, SudoPassword, PW_WRONG}

\* how far the clock moves between two events of the application
TimeSteps == {600, 601}
\* how far the clock moves between two calls of the cache's methods
CacheTimeSteps == {300, 301}

VARIABLES
    key,              \* PasswordCache.key
    cached_password,  \* PasswordCache.cached_password: None or Some(token)
    cache_time,       \* PasswordCache.cache_time: None or Some(seconds)
    active,           \* RootStatusIcon.active, set by the status callback
    plain,            \* history: the argument of the cache_password that stored the credential
    cached_by,        \* history: the method whose cache_password stored the credential
    now,              \* time.time()
    stack,            \* the handlers on the UI thread's call stack, innermost last
    timers,           \* pending QTimer.singleShot callbacks: the captured passwords
    output_text,      \* the output pane's text
    succeeded,        \* history: the passwords a privileged command succeeded with
    closed,           \* the main window has been closed
    file_list,        \* the items of the file list widget
    last              \* history: what the last step did

cacheVars == << cached_password, cache_time, active, plain, cached_by >>
appVars == << stack, timers, output_text, succeeded, closed, file_list >>
vars == << key, cached_password, cache_time, active, plain, cached_by, now,
           stack, timers, output_text, succeeded, closed, file_list, last >>

(***************************************************************************)
(* PasswordCache.  The methods are functions of the cache object c, a      *)
(* record of its fields, of the status icon's flag, and of the             *)
(* notifications delivered to the observer so far in the step.             *)
(***************************************************************************)
timeout_minutes == 10

CacheObject ==
    [key |-> key, cached_password |-> cached_password, cache_time |-> cache_time,
     active |-> active, plain |-> plain, by |-> cached_by, notified |-> << >>]

\* UdevRulesApp.update_root_status via cache_status_changed_callback
update_root_status(c, flag) ==
    [c EXCEPT !.active = flag, !.notified = Append(@, flag)]

\* cache_password without the call of the status callback
cache_passwordSilent(c, password, t) ==
    [c EXCEPT !.cached_password = Some(FernetEncrypt(c.key, Utf8Encode(password))),
              !.cache_time = Some(t),
              !.plain = Some(password)]

cache_password(c, password, t) ==
    update_root_status(
        [c EXCEPT !.cached_password = Some(FernetEncrypt(c.key, Utf8Encode(password))),
                  !.cache_time = Some(t),
                  !.plain = Some(password)],
        TRUE)

\* clear_cache forgetting the ciphertext and keeping the timestamp
clear_cacheKeepingTime(c) ==
    update_root_status([c EXCEPT !.cached_password = None, !.plain = None], FALSE)

\* clear_cache doing nothing on a cache that is already empty
clear_cacheIfSet(c) ==
    IF c.cached_password = None /\ c.cache_time = None THEN c
    ELSE update_root_status(
             [c EXCEPT !.cached_password = None, !.cache_time = None, !.plain = None],
             FALSE)

clear_cache(c) ==
    update_root_status(
        [c EXCEPT !.cached_password = None, !.cache_time = None, !.plain = None],
        FALSE)

\* the expiry test with >= for >
ExpiredAtBoundary(t, cached_at) == t - cached_at >= timeout_minutes * 60

\* time.time() - self.cache_time > (self.timeout_minutes * 60)
Expired(t, cached_at) == t - cached_at > timeout_minutes * 60

\* not self.cached_password or not self.cache_time
Unset(c) ==
    \/ c.cached_password = None
    \/ c.cache_time = None
    \/ c.cache_time = Some(0)

\* get_password reporting an expired credential absent but keeping it
get_passwordKeepingExpired(c, t) ==
    IF Unset(c) \/ Expired(t, c.cache_time[1]) THEN [ret |-> None, c |-> c]
    ELSE [ret |-> Some(Utf8Decode(FernetDecrypt(c.key, c.cached_password[1]))), c |-> c]

\* the pair (returned value, cache object afterwards)
get_password(c, t) ==
    IF Unset(c) THEN [ret |-> None, c |-> c]
    ELSE IF Expired(t, c.cache_time[1]) THEN [ret |-> None, c |-> clear_cache(c)]
    ELSE [ret |-> Some(Utf8Decode(FernetDecrypt(c.key, c.cached_password[1]))), c |-> c]

\* the cache object's fields written back
SetCache(c) ==
    /\ cached_password' = c.cached_password
    /\ cache_time' = c.cache_time
    /\ active' = c.active
    /\ plain' = c.plain
    /\ cached_by' = c.by

(***************************************************************************)
(* sudo and the commands it runs.                                          *)
(***************************************************************************)
\* the CommandResult values a privileged shell command may end with
SudoResults(password) ==
    IF password = SudoPassword
    THEN {[exitOk |-> TRUE, stdout |-> << >>, stderr |-> << >>],
          [exitOk |-> TRUE, stdout |-> STDOUT_SAMPLE, stderr |-> << >>],
          [exitOk |-> FALSE, stdout |-> << >>, stderr |-> STDERR_OTHER]}
    ELSE {[exitOk |-> FALSE, stdout |-> << >>, stderr |-> e] :
             e \in {STDERR_AUTH, STDERR_AUTH_MIXED, STDERR_AUTH_DE}}

\* "/dev/hidraw<i>", i a digit
Device(i) == DEV_HIDRAW \o << 48 + i >>

\* glob.glob('/dev/hidraw*') when n nodes exist
HidrawDevices(n) == [i \in 1..n |-> Device(i - 1)]

\* what udevadm prints for the Octavi IFR1: DEVPATH=...0003:04d8:e6d6...
OctaviInfo == [ok |-> TRUE, ids |-> Some(<< ID_04D8_LOWER, ID_E6D6_LOWER >>)]

\* what `sudo -S udevadm info` gives for one node: a CalledProcessError, or the
\* groups of the DEVPATH pattern (None when the pattern does not match)
DeviceInfos(password) ==
    IF password = SudoPassword
    THEN {[ok |-> FALSE, ids |-> None],
          [ok |-> TRUE, ids |-> None],
          OctaviInfo,
          [ok |-> TRUE, ids |-> Some(<< ID_046D, PRODUCT_ID >>)]}
    ELSE {[ok |-> FALSE, ids |-> None]}

\* whether `sudo -S chmod 0666` may succeed (TRUE) or fail (FALSE)
ChmodResults(password) == IF password = SudoPassword THEN {TRUE, FALSE} ELSE {FALSE}

(***************************************************************************)
(* The state a handler works on: the cache object, the output pane, the    *)
(* pending timers, and the record of what the handler has done.            *)
(***************************************************************************)
HandlerState ==
    [c |-> CacheObject, out |-> output_text, timers |-> timers,
     suc |-> succeeded,
     runs |-> << >>, bad |-> FALSE, cancelled |-> FALSE]

\* bool(password) of an Optional[str]
Truthy(o) == o # None /\ o[1] # << >>

\* dmesg_hidraw.highlight_octavi_ifr1
RECURSIVE SplitLines(_, _)
SplitLines(s, acc) ==
    IF s = << >> THEN << acc >>
    ELSE IF Head(s) = NL[1] THEN << acc >> \o SplitLines(Tail(s), << >>)
    ELSE SplitLines(Tail(s), Append(acc, Head(s)))

RECURSIVE JoinLines(_)
JoinLines(ls) ==
    IF Len(ls) = 1 THEN ls[1] ELSE ls[1] \o BR \o JoinLines(Tail(ls))

highlight_octavi_ifr1(output) ==
    LET lines == SplitLines(output, << >>)
        mark(l) == IF Contains(Lower(l), OCTAVI_IFR1) THEN B_OPEN \o l \o B_CLOSE ELSE l
    IN JoinLines([i \in DOMAIN lines |-> mark(lines[i])])

\* the test without .lower()
IsAuthFailureCaseSensitive(stderr) == Contains(stderr, INCORRECT_PASSWORD)

\* "incorrect password" in e.stderr.lower()
IsAuthFailure(stderr) == Contains(Lower(stderr), INCORRECT_PASSWORD)

\* f"echo {password} | sudo -S {command}" run with shell=True
ShellSpawn(command, password) ==
    [argv |-> << BIN_SH, DASH_C, ECHO \o password \o PIPE_SUDO \o command >>,
     input |-> None]

\* lines 392-396 showing stdout as it is, empty or not
ReportRawStdout(callback, res) ==
    IF res.exitOk
    THEN IF callback
         THEN [via |-> "callback", shown |-> highlight_octavi_ifr1(res.stdout)]
         ELSE [via |-> "pane", shown |-> res.stdout]
    ELSE [via |-> "error", shown |-> ERROR_PREFIX \o res.stderr]

\* lines 392-399: the text run_sudo_command puts into the output pane, and the
\* handler it goes through
Report(callback, res) ==
    IF res.exitOk
    THEN LET output == IF res.stdout # << >> THEN res.stdout ELSE MSG_SUCCESS
         IN IF callback
            THEN [via |-> "callback", shown |-> highlight_octavi_ifr1(output)]
            ELSE [via |-> "pane", shown |-> output]
    ELSE [via |-> "error", shown |-> ERROR_PREFIX \o res.stderr]

\* what run_sudo_command records of the process it ran
SudoRun(s, command, password, callback, res) ==
    [fn |-> "run_sudo_command", password |-> password,
     spawn |-> ShellSpawn(command, password),
     exitOk |-> res.exitOk, stdout |-> res.stdout, stderr |-> res.stderr,
     via |-> Report(callback, res).via,
     shown |-> Report(callback, res).shown,
     cachedBefore |-> s.c.plain = Some(password)]

\* clear_cache called for an authentication failure (line 402)
Invalidate(c) == [clear_cache(c) EXCEPT !.by = "auth_failure"]

\* run_sudo_command storing the password once the command has succeeded
SudoExecCachingOnSuccess(s, command, password, callback, res) ==
    LET run == SudoRun(s, command, password, callback, res)
    IN IF res.exitOk
       THEN [s EXCEPT !.out = Report(callback, res).shown,
                      !.runs = Append(@, run),
                      !.suc = @ \cup {password},
                      !.c = cache_password(@, password, now)]
       ELSE [s EXCEPT !.out = Report(callback, res).shown,
                      !.runs = Append(@, run),
                      !.bad = TRUE,
                      !.c = IF IsAuthFailure(res.stderr) THEN Invalidate(@) ELSE @]

\* run_sudo_command from full_command on (lines 388-402), the password known
SudoExec(s, command, password, callback, res) ==
    LET run == SudoRun(s, command, password, callback, res)
    IN IF res.exitOk
       THEN [s EXCEPT !.out = Report(callback, res).shown,
                      !.runs = Append(@, run),
                      !.suc = @ \cup {password}]
       ELSE [s EXCEPT !.out = Report(callback, res).shown,
                      !.runs = Append(@, run),
                      !.bad = TRUE,
                      !.c = IF IsAuthFailure(res.stderr) THEN Invalidate(@) ELSE @]

\* the command of a handler's stage-th run_sudo_command call
Command(handler, stage) ==
    CASE handler = "reload_rules" -> CMD_RELOAD
      [] handler = "trigger_rules" -> CMD_TRIGGER
      [] handler = "dmesg_hidraw" -> CMD_DMESG
      [] handler = "create_udev_rule" -> CMD_CREATE
      [] handler = "check_plugdev_group" /\ stage = 1 -> CMD_GROUPADD
      [] handler = "check_plugdev_group" /\ stage = 2 -> CMD_USERMOD \o USER

\* whether the call passes callback=
HasCallback(handler) == handler = "dmesg_hidraw"

\* where a handler stands when a step ends: returned, or in the password dialog
\* of its stage-th run_sudo_command call
Done(s) == [s |-> s, pc |-> "done", stage |-> 0, entry |-> None, entryValid |-> FALSE]
InDialog(s, stage, before) ==
    [s |-> s, pc |-> "dialog", stage |-> stage,
     entry |-> Some(<< before.cached_password, before.cache_time, before.active >>),
     entryValid |-> /\ ~Unset(before)
                    /\ now - before.cache_time[1] <= timeout_minutes * 60
                    /\ before.by = "run_sudo_command"]

RECURSIVE AfterRun(_, _, _)
RECURSIVE RunFrom(_, _, _)

\* check_plugdev_group from the `groups` query on
GroupsCheck(s) ==
    UNION {
        {Done([s EXCEPT !.out = MSG_GROUP_ERROR])},
        {Done([s EXCEPT !.out = MSG_ALREADY_1 \o USER \o MSG_ALREADY_2])},
        RunFrom("check_plugdev_group", 2, s) }

\* a handler from the return of its stage-th run_sudo_command call on
AfterRun(handler, stage, s) ==
    CASE handler = "create_udev_rule" ->
            {Done([s EXCEPT !.out = MSG_RULE_CREATED])}
      [] handler = "check_plugdev_group" /\ stage = 1 ->
            GroupsCheck([s EXCEPT !.out = MSG_GROUP_CREATED])
      [] handler = "check_plugdev_group" /\ stage = 2 ->
            {Done([s EXCEPT !.out = MSG_ADDED_1 \o USER \o MSG_ADDED_2])}
      [] OTHER -> {Done(s)}

\* a handler from the entry of its stage-th run_sudo_command call on
RunFrom(handler, stage, s) ==
    LET g == get_password(s.c, now)
        s1 == [s EXCEPT !.c = g.c]
    IN IF Truthy(g.ret)
       THEN UNION { AfterRun(handler, stage,
                        SudoExec(s1, Command(handler, stage), g.ret[1],
                                 HasCallback(handler), res)) :
                    res \in SudoResults(g.ret[1]) }
       ELSE {InDialog(s1, stage, s.c)}

\* the search scheduled a second time by the same call
ScheduleTwice(s, password) ==
    [s EXCEPT !.out = MSG_PREPARING, !.timers = @ \o << password, password >>]

\* QTimer.singleShot(100, lambda: self.find_octavi_device(password))
Schedule(s, password) ==
    [s EXCEPT !.out = MSG_PREPARING, !.timers = Append(@, password)]

\* run_find_octavi_device from its entry on
FindFrom(s) ==
    LET g == get_password(s.c, now)
        s1 == [s EXCEPT !.c = g.c]
    IN IF Truthy(g.ret) THEN {Done(Schedule(s1, g.ret[1]))}
       ELSE {InDialog(s1, 1, s.c)}

\* a handler from its entry on
Start(handler, s) ==
    CASE handler = "check_plugdev_group" ->
            \* getent group plugdev: the group exists, or not
            GroupsCheck(s) \cup RunFrom(handler, 1, s)
      [] handler = "run_find_octavi_device" -> FindFrom(s)
      [] OTHER -> RunFrom(handler, 1, s)

\* the password dialog accepted, the text p stored once the command has run
AcceptedCachingAfter(handler, stage, s, p) ==
    LET by == IF handler = "run_find_octavi_device" THEN handler ELSE "run_sudo_command"
        store(t) == [t EXCEPT !.c = [cache_password(@, p, now) EXCEPT !.by = by]]
    IN IF handler = "run_find_octavi_device" THEN {Done(Schedule(store(s), p))}
       ELSE UNION { AfterRun(handler, stage,
                        store(SudoExec(s, Command(handler, stage), p,
                                       HasCallback(handler), res))) :
                    res \in SudoResults(p) }

\* the password dialog accepted with the text p
Accepted(handler, stage, s, p) ==
    LET by == IF handler = "run_find_octavi_device" THEN handler ELSE "run_sudo_command"
        s1 == [s EXCEPT !.c = [cache_password(@, p, now) EXCEPT !.by = by]]
    IN IF handler = "run_find_octavi_device" THEN {Done(Schedule(s1, p))}
       ELSE UNION { AfterRun(handler, stage,
                        SudoExec(s1, Command(handler, stage), p,
                                 HasCallback(handler), res)) :
                    res \in SudoResults(p) }

\* the password dialog cancelled, the empty text it returned stored all the same
CancelledCaching(s) ==
    [s EXCEPT !.out = MSG_CANCELLED, !.cancelled = TRUE, !.bad = TRUE,
              !.c = cache_password(@, << >>, now)]

\* the password dialog cancelled: "Operation cancelled." and return
Cancelled(s) ==
    [s EXCEPT !.out = MSG_CANCELLED, !.cancelled = TRUE, !.bad = TRUE]

(***************************************************************************)
(* find_octavi_device.                                                     *)
(***************************************************************************)
\* ['sudo', '-S', 'udevadm', 'info', '--query=all', '--name=' + hidraw], input=password
UdevadmSpawn(hidraw, password) ==
    [argv |-> << SUDO, DASH_S, UDEVADM, INFO, QUERY_ALL, NAME_EQ \o hidraw >>,
     input |-> Some(Utf8Encode(password))]

\* ['sudo', '-S', 'chmod', '0666', device], input=password.encode()
ChmodSpawn(device, password) ==
    [argv |-> << SUDO, DASH_S, CHMOD, MODE_0666, device >>,
     input |-> Some(Utf8Encode(password))]

\* devpath_match and the comparison of its groups with VENDOR_ID, PRODUCT_ID
IsOctavi(info) ==
    /\ info.ok
    /\ info.ids # None
    /\ Upper(info.ids[1][1]) = VENDOR_ID
    /\ Upper(info.ids[1][2]) = PRODUCT_ID

FindRun(spawn, password, ok) ==
    [fn |-> "find_octavi_device", password |-> password,
     spawn |-> spawn, exitOk |-> ok, stdout |-> << >>, stderr |-> << >>,
     via |-> "none", shown |-> << >>, cachedBefore |-> TRUE]

\* the first loop (lines 457-474): found_devices as node indices, and the
\* udevadm processes run
RECURSIVE QueryLoop(_, _, _, _, _)
QueryLoop(devices, q, password, i, acc) ==
    IF i > Len(devices) THEN acc
    ELSE QueryLoop(devices, q, password, i + 1,
             [found |-> IF IsOctavi(q[i]) THEN Append(acc.found, i) ELSE acc.found,
              runs |-> Append(acc.runs,
                          FindRun(UdevadmSpawn(devices[i], password), password, q[i].ok))])

\* the second loop giving up at the first chmod that fails
RECURSIVE ChmodLoopAborting(_, _, _, _, _)
ChmodLoopAborting(devices, found, ch, password, acc) ==
    IF found = << >> THEN acc
    ELSE LET device == devices[Head(found)]
             ok == ch[Head(found)]
             acc1 == [result |-> acc.result \o device \o NL
                                 \o (IF ok THEN MSG_APPLIED ELSE MSG_FAILED)
                                 \o device \o NL,
                      runs |-> Append(acc.runs,
                                  FindRun(ChmodSpawn(device, password), password, ok))]
         IN IF ok THEN ChmodLoopAborting(devices, Tail(found), ch, password, acc1)
            ELSE acc1

\* the second loop (lines 478-484): the result text, and the chmod processes run
RECURSIVE ChmodLoop(_, _, _, _, _)
ChmodLoop(devices, found, ch, password, acc) ==
    IF found = << >> THEN acc
    ELSE LET device == devices[Head(found)]
             ok == ch[Head(found)]
         IN ChmodLoop(devices, Tail(found), ch, password,
                [result |-> acc.result \o device \o NL
                            \o (IF ok THEN MSG_APPLIED ELSE MSG_FAILED)
                            \o device \o NL,
                 runs |-> Append(acc.runs,
                             FindRun(ChmodSpawn(device, password), password, ok))])

\* find_octavi_device up to the first processEvents()
FindEntry(s, password) ==
    LET g == get_password(s.c, now)
        c1 == IF Truthy(g.ret) THEN g.c
              ELSE [cache_password(g.c, password, now) EXCEPT !.by = "find_octavi_device"]
    IN [s EXCEPT !.c = c1, !.out = MSG_SEARCHING]

\* find_octavi_device between its two processEvents(): n nodes, q[i] what
\* udevadm gives for node i, ch[i] whether chmod on node i succeeds
FindSearchBody(s, password, n, q, ch) ==
    LET devices == HidrawDevices(n)
        queried == QueryLoop(devices, q, password, 1, [found |-> << >>, runs |-> << >>])
        changed == IF queried.found # << >>
                   THEN ChmodLoop(devices, queried.found, ch, password,
                                  [result |-> MSG_FOUND, runs |-> << >>])
                   ELSE [result |-> MSG_NOT_FOUND, runs |-> << >>]
        allRuns == queried.runs \o changed.runs
    IN [s EXCEPT !.out = changed.result,
                 !.runs = @ \o allRuns,
                 !.bad = @ \/ \E i \in DOMAIN allRuns : ~allRuns[i].exitOk,
                 !.suc = IF \E i \in DOMAIN allRuns : allRuns[i].exitOk
                         THEN @ \cup {password} ELSE @]

(***************************************************************************)
(* list_octavi_rules.  A directory is what os.path.exists and os.listdir   *)
(* give for /etc/udev/rules.d/: whether it exists, whether it can be read, *)
(* and its file names in the order os.listdir returns them.                *)
(***************************************************************************)
FileNames == {RULES_OCTAVI, RULES_OTHER, RULES_UPPER, RULES_MIXED, RULES_NEAR}

\* the listings os.listdir may return: distinct names, in any order
Listings ==
    UNION { {l \in [1..n -> FileNames] : \A i, j \in 1..n : l[i] = l[j] => i = j} :
            n \in 0..MaxFiles }

Directories ==
    {[exists |-> FALSE, readable |-> FALSE, names |-> << >>],
     [exists |-> TRUE, readable |-> FALSE, names |-> << >>]}
    \cup {[exists |-> TRUE, readable |-> TRUE, names |-> l] : l \in Listings}

\* the directory found when the application starts, in the runs of the buttons
StartupDir == [exists |-> TRUE, readable |-> TRUE, names |-> << RULES_OCTAVI >>]

\* str(n) of a natural number
RECURSIVE Decimal(_)
Decimal(n) == IF n < 10 THEN << 48 + n >> ELSE Decimal(n \div 10) \o << 48 + (n % 10) >>

\* repr(name) of a str without quotes or escapes
PyRepr(name) == << 39 >> \o name \o << 39 >>

RECURSIVE JoinReprs(_)
JoinReprs(names) ==
    IF Len(names) = 1 THEN PyRepr(names[1])
    ELSE PyRepr(names[1]) \o << 44, 32 >> \o JoinReprs(Tail(names))

\* str(os.listdir(rules_dir))
StrOfList(names) ==
    IF names = << >> THEN << 91, 93 >> ELSE << 91 >> \o JoinReprs(names) \o << 93 >>

\* the filter comparing the names as they are
RECURSIVE OctaviFilesCaseSensitive(_)
OctaviFilesCaseSensitive(names) ==
    IF names = << >> THEN << >>
    ELSE (IF Contains(Head(names), OCTAVI) THEN << Head(names) >> ELSE << >>)
         \o OctaviFilesCaseSensitive(Tail(names))

\* [f for f in os.listdir(rules_dir) if 'octavi' in f.lower()]
RECURSIVE OctaviFiles(_)
OctaviFiles(names) ==
    IF names = << >> THEN << >>
    ELSE (IF Contains(Lower(Head(names)), OCTAVI) THEN << Head(names) >> ELSE << >>)
         \o OctaviFiles(Tail(names))

\* the file list's items and the output pane's text list_octavi_rules leaves
list_octavi_rules(dir) ==
    IF ~dir.exists
    THEN [files |-> << >>, out |-> MSG_DIR_1 \o RULES_DIR \o MSG_DIR_2]
    ELSE IF ~dir.readable
    THEN [files |-> << >>,
          out |-> MSG_LIST_ERROR \o PERMISSION_DENIED \o NL \o PERMISSION_ERROR]
    ELSE LET files == OctaviFiles(dir.names)
             found == IF Len(files) = 0 THEN MSG_NO_RULES
                      ELSE MSG_FOUND_1 \o Decimal(Len(files)) \o MSG_FOUND_2
         IN [files |-> files,
             out |-> found \o NL \o MSG_SEARCHED \o RULES_DIR
                     \o NL \o MSG_ALL_FILES \o StrOfList(dir.names)]

(***************************************************************************)
(* The UI thread.  A frame is a handler that has not returned: it waits in *)
(* its password dialog ("dialog"), or it is find_octavi_device inside      *)
(* QApplication.processEvents() ("pe1": line 453, "pe2": line 489).        *)
(***************************************************************************)
Handlers ==
    {"reload_rules", "trigger_rules", "dmesg_hidraw", "create_udev_rule",
     "check_plugdev_group", "run_find_octavi_device"}

Top == stack[Len(stack)]
Below == SubSeq(stack, 1, Len(stack) - 1)

NoEnv == [n |-> 0, octavi |-> {}, chmodOk |-> {}]
NoReturn == [cache |-> None, timers |-> << >>, runs |-> << >>]

NoLast ==
    [op |-> "init", handler |-> "", done |-> FALSE, stage |-> 0,
     arg |-> None, ret |-> None, notified |-> << >>, runs |-> << >>,
     bad |-> FALSE, cancelled |-> FALSE, opened |-> FALSE,
     entry |-> None, entryValid |-> FALSE, atReturn |-> NoReturn, env |-> NoEnv,
     dir |-> None]

Frame(handler, o, password) ==
    [handler |-> handler, pc |-> o.pc, stage |-> o.stage, bad |-> o.s.bad,
     password |-> password, entry |-> o.entry, entryValid |-> o.entryValid]

\* the state a step leaves: the handler's frame pushed on `below` unless it
\* returned, and the handler state written back
Leave(below, handler, o, password, lastRec) ==
    /\ stack' = IF o.pc = "done" THEN below ELSE Append(below, Frame(handler, o, password))
    /\ SetCache(o.s.c)
    /\ output_text' = o.s.out
    /\ timers' = o.s.timers
    /\ succeeded' = o.s.suc
    /\ last' = [lastRec EXCEPT !.handler = handler,
                               !.done = (o.pc = "done"),
                               !.notified = o.s.c.notified,
                               !.runs = o.s.runs,
                               !.bad = o.s.bad,
                               !.cancelled = o.s.cancelled,
                               !.opened = (o.pc = "dialog"),
                               !.entry = IF o.pc = "dialog" THEN o.entry ELSE @,
                               !.entryValid = IF o.pc = "dialog" THEN o.entryValid ELSE @]
    /\ UNCHANGED << key, now, closed, file_list >>

\* the event loop dispatches input events to the main window: the main loop or
\* processEvents(), unless a modal password dialog is open
InputAllowed == \A i \in DOMAIN stack : stack[i].pc \in {"pe1", "pe2"}

\* the event loop dispatches timer events: any loop, the dialog's included
TimersAllowed == IF stack = << >> THEN TRUE ELSE Top.pc \in {"dialog", "pe1", "pe2"}

\* PasswordCache() (lines 35-41), the status icon off, the clock started
PasswordCacheInit ==
    /\ key \in Keys
    /\ cached_password = None
    /\ cache_time = None
    /\ active = FALSE
    /\ plain = None
    /\ cached_by = "none"
    /\ now = 1

\* the cache constructed, and nothing of the window yet
InitCache ==
    /\ PasswordCacheInit
    /\ stack = << >>
    /\ timers = << >>
    /\ output_text = << >>
    /\ succeeded = {}
    /\ closed = FALSE
    /\ file_list = << >>
    /\ last = NoLast

\* UdevRulesApp() (lines 100-106): the cache, the window, and the first
\* list_octavi_rules() on one of the directories dirs
Startup(dirs) ==
    /\ PasswordCacheInit
    /\ key = AppKey
    /\ stack = << >>
    /\ timers = << >>
    /\ succeeded = {}
    /\ closed = FALSE
    /\ \E dir \in dirs :
          /\ file_list = list_octavi_rules(dir).files
          /\ output_text = list_octavi_rules(dir).out
          /\ last = [NoLast EXCEPT !.dir = Some(dir)]

Init == Startup({StartupDir})

\* time passes
Tick ==
    /\ \E d \in TimeSteps :
          /\ now + d <= MaxTime
          /\ now' = now + d
    /\ last' = [NoLast EXCEPT !.op = "tick"]
    /\ UNCHANGED << key, cacheVars, appVars >>

\* a button of the grid is clicked (lines 203-218)
ClickOf(handlers) ==
    /\ ~closed
    /\ InputAllowed
    /\ Len(stack) < MaxDepth
    /\ \E handler \in handlers :
          /\ handler = "run_find_octavi_device" => Len(timers) < MaxTimers
          /\ \E o \in Start(handler, HandlerState) :
                Leave(stack, handler, o, None, [NoLast EXCEPT !.op = "click", !.stage = o.stage])

Click == ClickOf(Handlers)

\* the password dialog is accepted (lines 379-386 and 498-503)
DialogAccept ==
    /\ stack # << >>
    /\ Top.pc = "dialog"
    /\ \E p \in Passwords :
          \E o \in Accepted(Top.handler, Top.stage, [HandlerState EXCEPT !.bad = Top.bad], p) :
             Leave(Below, Top.handler, o, None,
                   [NoLast EXCEPT !.op = "accept", !.arg = Some(p), !.stage = Top.stage,
                                  !.entry = Top.entry, !.entryValid = Top.entryValid])

\* the password dialog is cancelled (lines 382-384 and 499-501)
DialogCancel ==
    /\ stack # << >>
    /\ Top.pc = "dialog"
    /\ LET s1 == Cancelled([HandlerState EXCEPT !.bad = Top.bad])
       IN \E o \in (IF Top.handler = "run_find_octavi_device" THEN {Done(s1)}
                    ELSE AfterRun(Top.handler, Top.stage, s1)) :
             Leave(Below, Top.handler, o, None,
                   [NoLast EXCEPT !.op = "cancel", !.stage = Top.stage,
                                  !.entry = Top.entry, !.entryValid = Top.entryValid,
                                  !.atReturn = [cache |-> Some(<< s1.c.cached_password,
                                                                  s1.c.cache_time,
                                                                  s1.c.active >>),
                                                timers |-> s1.timers,
                                                runs |-> s1.runs]])

\* a single-shot timer fires: find_octavi_device to its first processEvents()
TimerFire ==
    /\ timers # << >>
    /\ TimersAllowed
    /\ LET password == Head(timers)
           s == FindEntry([HandlerState EXCEPT !.timers = Tail(timers)], password)
           o == [s |-> s, pc |-> "pe1", stage |-> 0, entry |-> None, entryValid |-> FALSE]
       IN Leave(stack, "find_octavi_device", o, Some(password),
                [NoLast EXCEPT !.op = "timer", !.arg = Some(password)])

\* processEvents() at line 453 returns: the search, to processEvents() at line 489
SearchUpTo(nodes) ==
    /\ stack # << >>
    /\ Top.pc = "pe1"
    /\ LET password == Top.password[1]
       IN \E n \in 0..nodes :
          \E q \in [1..n -> DeviceInfos(password)] :
          \E ch \in [1..n -> BOOLEAN] :
             /\ \A i \in 1..n : ch[i] \in ChmodResults(password) \/ ~IsOctavi(q[i])
             /\ \A i \in 1..n : ~IsOctavi(q[i]) => ~ch[i]
             /\ LET s == FindSearchBody([HandlerState EXCEPT !.bad = Top.bad],
                                        password, n, q, ch)
                    o == [s |-> s, pc |-> "pe2", stage |-> 0, entry |-> None,
                          entryValid |-> FALSE]
                IN Leave(Below, "find_octavi_device", o, Top.password,
                         [NoLast EXCEPT !.op = "search", !.arg = Top.password,
                                        !.env = [n |-> n,
                                                 octavi |-> {i \in 1..n : q[i] = OctaviInfo},
                                                 chmodOk |-> {i \in 1..n : ch[i]}]])

FindSearch == SearchUpTo(MaxNodes)

\* processEvents() at line 489 returns, and find_octavi_device with it
FindReturn ==
    /\ stack # << >>
    /\ Top.pc = "pe2"
    /\ Leave(Below, "find_octavi_device",
             Done([HandlerState EXCEPT !.bad = Top.bad]), None,
             [NoLast EXCEPT !.op = "return"])

\* the main window is closed: closeEvent.  The window is hidden and the
\* application quits when control is back in the main loop; a single-shot
\* timer that is due may be dispatched before that
CloseEvent ==
    /\ ~closed
    /\ InputAllowed
    /\ LET c == clear_cache(CacheObject)
       IN /\ SetCache(c)
          /\ last' = [NoLast EXCEPT !.op = "closeEvent", !.notified = c.notified,
                                    !.entry = Some(<< cached_password, cache_time,
                                                      active >>)]
    /\ closed' = TRUE
    /\ UNCHANGED << key, now, stack, timers, output_text, succeeded, file_list >>

Next ==
    \/ Tick
    \/ Click
    \/ DialogAccept
    \/ DialogCancel
    \/ TimerFire
    \/ FindSearch
    \/ FindReturn
    \/ CloseEvent

Spec == Init /\ [][Next]_vars

(***************************************************************************)
(* PasswordCache on its own: its three methods called in any order.        *)
(***************************************************************************)
CachePassword ==
    /\ \E p \in Passwords :
          LET c == cache_password(CacheObject, p, now)
          IN /\ SetCache([c EXCEPT !.by = "cache_password"])
             /\ last' = [NoLast EXCEPT !.op = "cache_password", !.arg = Some(p),
                                       !.notified = c.notified]
    /\ UNCHANGED << key, now, appVars >>

GetPassword ==
    /\ LET g == get_password(CacheObject, now)
       IN /\ SetCache(g.c)
          /\ last' = [NoLast EXCEPT !.op = "get_password", !.ret = g.ret,
                                    !.notified = g.c.notified]
    /\ UNCHANGED << key, now, appVars >>

ClearCache ==
    /\ LET c == clear_cache(CacheObject)
       IN /\ SetCache(c)
          /\ last' = [NoLast EXCEPT !.op = "clear_cache", !.notified = c.notified,
                                    !.entry = Some(<< cached_password, cache_time,
                                                      active >>)]
    /\ UNCHANGED << key, now, appVars >>

\* time passes between two calls
Elapse ==
    /\ \E d \in CacheTimeSteps :
          /\ now + d <= MaxTime
          /\ now' = now + d
    /\ last' = [NoLast EXCEPT !.op = "elapse"]
    /\ UNCHANGED << key, cacheVars, appVars >>

NextCache ==
    \/ CachePassword
    \/ GetPassword
    \/ ClearCache
    \/ Elapse

SpecCache == InitCache /\ [][NextCache]_vars

(***************************************************************************)
(* Find Device on its own, with more device nodes.                         *)
(***************************************************************************)
ClickFind == ClickOf({"run_find_octavi_device"})

FindSearchAll == SearchUpTo(MaxDevices)

NextSearch ==
    \/ Tick
    \/ ClickFind
    \/ DialogAccept
    \/ DialogCancel
    \/ TimerFire
    \/ FindSearchAll
    \/ FindReturn

SpecSearch == Init /\ [][NextSearch]_vars

(***************************************************************************)
(* Find Device beside one other privileged button, everything happening    *)
(* within the TTL, and the event loop at work: as long as the window is    *)
(* open, a loop that is running dispatches a timer that is due.            *)
(***************************************************************************)
ClickLive == ClickOf({"run_find_octavi_device", "reload_rules"})

NextLive ==
    \/ ClickLive
    \/ DialogAccept
    \/ DialogCancel
    \/ TimerFire
    \/ FindSearch
    \/ FindReturn
    \/ CloseEvent

SpecLive == Init /\ [][NextLive]_vars /\ WF_vars(TimerFire /\ ~closed)

(***************************************************************************)
(* List Rules on its own, with every directory.                            *)
(***************************************************************************)
InitList == Startup(Directories)

\* the List Rules button is clicked (line 205)
ListRules ==
    /\ ~closed
    /\ InputAllowed
    /\ \E dir \in Directories :
          /\ file_list' = list_octavi_rules(dir).files
          /\ output_text' = list_octavi_rules(dir).out
          /\ last' = [NoLast EXCEPT !.op = "list_octavi_rules", !.dir = Some(dir)]
    /\ UNCHANGED << key, cacheVars, now, stack, timers, succeeded, closed >>

NextList == ListRules

SpecList == InitList /\ [][NextList]_vars

(***************************************************************************)
(* The properties.  `last` tells what the step into the current state did: *)
(* last.runs are the processes it ran, last.notified the values it         *)
(* delivered to the status observer.                                       *)
(***************************************************************************)
CacheFields == << cached_password, cache_time, active >>

\* C1: when a run_sudo_command call has run a command that failed with
\* "incorrect password", in any letter case, in its stderr, the cache is cleared
\* by the time the call has returned: no ciphertext, no timestamp, and a
\* get_password() issued right then returns None, whatever the clock says.
C1_AuthFailureClearsCache ==
    \A i \in DOMAIN last.runs :
        ( /\ last.runs[i].fn = "run_sudo_command"
          /\ ~last.runs[i].exitOk
          /\ last.runs[i].stderr \in {STDERR_AUTH, STDERR_AUTH_MIXED} )
        => /\ cached_password = None
           /\ cache_time = None
           /\ get_password(CacheObject, now).ret = None

\* C1's case: a credential taken from the cache is refused by sudo with the
\* mixed-case message, and is gone although no time has passed on the TTL.
C1_Witness ==
    /\ last.op = "click"
    /\ Len(last.runs) = 1
    /\ last.runs[1].cachedBefore
    /\ last.runs[1].stderr = STDERR_AUTH_MIXED
    /\ last.notified = << FALSE >>
    /\ cached_password = None
    /\ now = 1

\* C2: a run_sudo_command call entered while the cache holds an unexpired
\* credential that an earlier run_sudo_command prompt stored never opens the
\* password dialog, and runs its command with the cached password.
C2_NoRepromptWhileValid ==
    /\ \A i \in DOMAIN stack :
          (stack[i].pc = "dialog" /\ stack[i].handler # "run_find_octavi_device")
          => ~stack[i].entryValid
    /\ last.op = "click" =>
          \A i \in DOMAIN last.runs :
              last.runs[i].fn = "run_sudo_command" => last.runs[i].cachedBefore

\* C3: get_password() on a credential stored by cache_password(p) and not
\* cleared since, at a time t with t - cache_time <= 600, returns p and leaves
\* ciphertext and timestamp as they are.
C3_RoundTrip ==
    [][ ( /\ last'.op = "get_password"
          /\ plain # None
          /\ cache_time # None
          /\ now - cache_time[1] <= 600 )
        => /\ last'.ret = plain
           /\ UNCHANGED << cached_password, cache_time >> ]_vars

\* C3's case: the non-ASCII password read back exactly 600 s after it was stored.
C3_Witness ==
    /\ last.op = "get_password"
    /\ last.ret = Some(PW_WRONG)
    /\ cache_time # None
    /\ now - cache_time[1] = 600

\* C4: get_password() on a credential older than 600 s returns None, discards
\* ciphertext and timestamp and notifies the observer with FALSE exactly once;
\* get_password() on an empty cache returns None and notifies nobody, so until
\* the next cache_password no further notification comes from it.
C4_Expiry ==
    [][ last'.op = "get_password" =>
        /\ ( /\ cached_password # None
             /\ cache_time # None
             /\ now - cache_time[1] > 600 )
           => /\ last'.ret = None
              /\ cached_password' = None
              /\ cache_time' = None
              /\ active' = FALSE
              /\ last'.notified = << FALSE >>
        /\ cached_password = None
           => /\ last'.ret = None
              /\ last'.notified = << >>
              /\ UNCHANGED CacheFields ]_vars

\* C4's case: get_password() has just found the credential expired.
C4_Witness ==
    /\ last.op = "get_password"
    /\ last.ret = None
    /\ last.notified = << FALSE >>
    /\ cached_password = None
    /\ cache_time = None

\* C5: no process is spawned with the plaintext password inside one of its
\* arguments.
C5_PasswordNeverInArgv ==
    \A i \in DOMAIN last.runs :
        last.runs[i].password # << >> =>
            \A k \in DOMAIN last.runs[i].spawn.argv :
                ~Contains(last.runs[i].spawn.argv[k], last.runs[i].password)

\* C6 as stated: when a password dialog that opened because the cache yielded
\* no password is cancelled, the call has run no command and the cache state is
\* what it was when the call was entered.
C6_CancelLeavesCacheAsEntered ==
    last.op = "cancel" =>
        /\ last.atReturn.runs = << >>
        /\ last.atReturn.cache = last.entry

\* C6 amended: the cancelled call runs no command, schedules no search and
\* stores nothing: when it returns, ciphertext, timestamp, status and pending
\* timers are what they were when the dialog closed; and the get_password() at
\* the entry of a call that opens the dialog changes the cache only by
\* discarding a credential older than 600 s, notifying FALSE.
C6_CancelIsNoOp ==
    [][ /\ last'.op = "cancel" =>
              last'.atReturn = [cache |-> Some(CacheFields), timers |-> timers,
                                runs |-> << >>]
        /\ last'.opened =>
              \/ Some(CacheFields') = last'.entry
              \/ /\ last'.entry[1][1] # None
                 /\ last'.entry[1][2] # None
                 /\ now - last'.entry[1][2][1] > 600
                 /\ CacheFields' = << None, None, FALSE >> ]_vars

\* C6's case: the dialog opened because the credential had expired, and was
\* cancelled.
C6_Witness ==
    /\ last.op = "cancel"
    /\ last.handler = "reload_rules"
    /\ last.entry # None
    /\ last.entry[1][1] # None
    /\ cached_password = None
    /\ output_text = MSG_CANCELLED

\* C7: after a privileged command that sudo refused for its password (in
\* run_sudo_command with sudo's C-locale message, in the device search with
\* any), the cache yields no password, so the next operation prompts.
C7_RejectionInvalidates ==
    \A i \in DOMAIN last.runs :
        ( /\ ~last.runs[i].exitOk
          /\ last.runs[i].password # SudoPassword
          /\ \/ last.runs[i].fn = "find_octavi_device"
             \/ last.runs[i].stderr = STDERR_AUTH )
        => get_password(CacheObject, now).ret = None

\* text that tells the user of a failure or a cancellation
ReportsFailure(text) ==
    \/ StartsWith(text, ERROR_PREFIX)
    \/ StartsWith(text, MSG_GROUP_ERROR)
    \/ Contains(text, MSG_FAILED)
    \/ text = MSG_CANCELLED

\* C8: when a handler returns after one of its privileged commands failed or
\* its dialog was cancelled, the output pane reports the failure.
C8_FailuresAreReported ==
    (last.done /\ last.bad) => ReportsFailure(output_text)

\* C9: the device search queries every node whatever the earlier queries gave,
\* attempts chmod on every node found to be the Octavi whatever the earlier
\* chmods gave, and its result has the outcome line of each of them.
C9_SearchIndependence ==
    last.op = "search" =>
        /\ \A i \in 1..last.env.n :
              \E k \in DOMAIN last.runs :
                  last.runs[k].spawn.argv =
                      << SUDO, DASH_S, UDEVADM, INFO, QUERY_ALL, NAME_EQ \o Device(i - 1) >>
        /\ \A i \in last.env.octavi :
              /\ \E k \in DOMAIN last.runs :
                    /\ last.runs[k].spawn.argv =
                           << SUDO, DASH_S, CHMOD, MODE_0666, Device(i - 1) >>
                    /\ last.runs[k].exitOk = (i \in last.env.chmodOk)
              /\ Contains(output_text,
                     (IF i \in last.env.chmodOk THEN MSG_APPLIED ELSE MSG_FAILED)
                     \o Device(i - 1) \o NL)

\* C9's case: three nodes are the Octavi and chmod fails on the second only.
C9_Witness ==
    /\ last.op = "search"
    /\ last.env.n = 3
    /\ last.env.octavi = {1, 2, 3}
    /\ last.env.chmodOk = {1, 3}
    /\ Contains(output_text, MSG_APPLIED \o Device(0) \o NL)
    /\ Contains(output_text, MSG_FAILED \o Device(1) \o NL)
    /\ Contains(output_text, MSG_APPLIED \o Device(2) \o NL)

\* the password the stored ciphertext decrypts to
StoredPassword == Utf8Decode(FernetDecrypt(key, cached_password[1]))

\* C10 as stated: the cache holds a credential only if a privileged command run
\* with that password has already succeeded.
C10_StoredOnlyAfterSuccess ==
    cached_password # None => StoredPassword \in succeeded

\* C10 amended: a credential enters the cache only when a password dialog is
\* accepted, and is the text the dialog returned, or when find_octavi_device
\* starts, and is the password captured when the search was scheduled; the
\* commands of the accepting call run with the password already stored.
C10_StoredWhenPrompted ==
    [][ /\ ( /\ cached_password' # None
             /\ << cached_password', cache_time' >> # << cached_password, cache_time >> )
           => /\ last'.op \in {"accept", "timer"}
              /\ last'.arg = Some(StoredPassword')
              /\ last'.op = "timer" => (timers # << >> /\ Head(timers) = StoredPassword')
        /\ last'.op = "accept" =>
              \A i \in DOMAIN last'.runs : last'.runs[i].cachedBefore ]_vars

\* C10's case: the accepted password is in the cache, its command has failed,
\* and no command has ever succeeded with it.
C10_Witness ==
    /\ last.op = "accept"
    /\ cached_password # None
    /\ last.arg = Some(StoredPassword)
    /\ StoredPassword \notin succeeded
    /\ Len(last.runs) = 1
    /\ ~last.runs[1].exitOk

\* the privileged operations that have started and not returned
InFlight == {i \in DOMAIN stack : stack[i].handler # "run_find_octavi_device"}

\* the last step started a privileged operation: find_octavi_device, or a
\* run_sudo_command call of a button's handler
PrivilegedStarted ==
    \/ last.op = "timer"
    \/ /\ last.op = "click"
       /\ last.handler # "run_find_octavi_device"
       /\ (last.runs # << >> \/ last.opened)

\* the handlers that were on the call stack when the last step's handler started
StartedUnder == IF last.done THEN stack ELSE Below

\* C11: at most one privileged operation is between its start and its end, and
\* none starts while another, waiting in its password dialog or inside
\* processEvents(), has not returned.
C11_SingleInFlight ==
    /\ Cardinality(InFlight) <= 1
    /\ PrivilegedStarted => \A i \in DOMAIN StartedUnder : i \notin InFlight

\* C12: whatever cache_password, get_password and clear_cache calls have been
\* made, the ciphertext is present if and only if the timestamp is present.
C12_FieldsTogether == (cached_password = None) <=> (cache_time = None)

\* C12's case: a credential stored again, later, over an earlier state of the
\* cache.
C12_Witness ==
    /\ last.op = "cache_password"
    /\ cached_password # None
    /\ cache_time = Some(now)
    /\ now > 301

\* C13: every cache_password notifies TRUE, every clear_cache notifies FALSE,
\* a get_password notifies at most once, FALSE, when it discards the
\* credential; and the status icon's flag, the last value delivered, tells
\* whether a ciphertext is stored.
C13_StatusTracksCache ==
    /\ active = (cached_password # None)
    /\ last.op = "cache_password" => last.notified = << TRUE >>
    /\ last.op = "clear_cache" => last.notified = << FALSE >>
    /\ last.op = "get_password" =>
          \/ last.notified = << >>
          \/ last.notified = << FALSE >> /\ cached_password = None
    /\ last.notified # << >> => last.notified[Len(last.notified)] = active

\* C13's case: clear_cache on a cache that held a credential has turned the
\* status icon off.
C13_Witness ==
    /\ last.op = "clear_cache"
    /\ last.entry # None
    /\ last.entry[1][1] # None
    /\ last.entry[1][3] = TRUE
    /\ active = FALSE
    /\ cached_password = None

\* C14: clear_cache in any state leaves no ciphertext and no timestamp and
\* notifies FALSE once, on an empty cache too; a second clear_cache right after
\* it leaves the cache state of the first.
C14_ClearIdempotent ==
    [][ last'.op = "clear_cache" =>
        /\ cached_password' = None
        /\ cache_time' = None
        /\ active' = FALSE
        /\ last'.notified = << FALSE >>
        /\ last.op = "clear_cache" => CacheFields' = CacheFields ]_vars

\* C14's case: clear_cache called on a cache that was already empty.
C14_Witness ==
    /\ last.op = "clear_cache"
    /\ last.entry = Some(<< None, None, FALSE >>)
    /\ last.notified = << FALSE >>
    /\ cached_password = None
    /\ cache_time = None

\* C15: once closeEvent has run, the cache holds no ciphertext and no
\* timestamp, in the state closeEvent leaves and in every later one.
C15_NoCredentialAfterShutdown ==
    closed => (cached_password = None /\ cache_time = None)

\* C16: a run_sudo_command call whose command exits successfully gives the
\* command's stdout, or "Command executed successfully." when stdout is empty,
\* to the callback if it was passed one and to the output pane otherwise; a
\* call whose command fails shows the error text and never invokes the
\* callback.  Where nothing follows the call in the handler, the pane holds
\* that text when the handler returns.
C16_SuccessReporting ==
    /\ \A i \in DOMAIN last.runs :
          LET r == last.runs[i]
              text == IF r.stdout # << >> THEN r.stdout ELSE MSG_SUCCESS
          IN r.fn = "run_sudo_command" =>
                IF r.exitOk
                THEN IF last.handler = "dmesg_hidraw"
                     THEN r.via = "callback" /\ r.shown = highlight_octavi_ifr1(text)
                     ELSE r.via = "pane" /\ r.shown = text
                ELSE r.via = "error" /\ r.shown = ERROR_PREFIX \o r.stderr
    /\ ( /\ last.done
         /\ last.handler \in {"reload_rules", "trigger_rules", "dmesg_hidraw"}
         /\ last.runs # << >> )
       => output_text = last.runs[Len(last.runs)].shown

\* C16's case: Reload Rules, its command succeeding with nothing on stdout.
C16_Witness ==
    /\ last.handler = "reload_rules"
    /\ last.done
    /\ Len(last.runs) = 1
    /\ last.runs[1].exitOk
    /\ last.runs[1].stdout = << >>
    /\ output_text = MSG_SUCCESS

\* the positions of a name in a list
Positions(list, name) == {k \in DOMAIN list : list[k] = name}

\* C17: after list_octavi_rules on a readable directory the file list holds
\* the names of the listing that contain "octavi" in any letter case, and no
\* other, each once, in the listing's order; 99-octavi.rules beside
\* 50-other.rules gives the list of 99-octavi.rules alone; a missing directory
\* gives an empty list and the message saying so.
C17_RuleListing ==
    last.dir # None =>
        LET dir == last.dir[1]
            names == dir.names
        IN /\ (dir.exists /\ dir.readable) =>
                 /\ \A k \in DOMAIN file_list :
                       /\ Positions(names, file_list[k]) # {}
                       /\ Contains(Lower(file_list[k]), OCTAVI)
                 /\ \A i \in DOMAIN names :
                       Contains(Lower(names[i]), OCTAVI)
                       => Cardinality(Positions(file_list, names[i])) = 1
                 /\ \A k1, k2 \in DOMAIN file_list :
                       k1 < k2 =>
                           \E i1, i2 \in DOMAIN names :
                               /\ i1 < i2
                               /\ names[i1] = file_list[k1]
                               /\ names[i2] = file_list[k2]
                 /\ names = << RULES_OCTAVI, RULES_OTHER >> => file_list = << RULES_OCTAVI >>
           /\ ~dir.exists =>
                 /\ file_list = << >>
                 /\ output_text = MSG_DIR_1 \o RULES_DIR \o MSG_DIR_2

\* C17's case: List Rules on a directory whose three files are the upper-case
\* name, the name without the needle and the lower-case name, in this order.
C17_Witness ==
    /\ last.op = "list_octavi_rules"
    /\ last.dir = Some([exists |-> TRUE, readable |-> TRUE,
                        names |-> << RULES_UPPER, RULES_OTHER, RULES_OCTAVI >>])
    /\ file_list = << RULES_UPPER, RULES_OCTAVI >>
    /\ Contains(output_text, MSG_FOUND_1 \o << 50 >> \o MSG_FOUND_2)

\* C18: when the password dialog of a run_sudo_command call is accepted, the
\* text it returned is stored, and the observer notified TRUE, before the
\* command is executed, and the command is executed with that text as the
\* password.
C18_CacheBeforeExecute ==
    (last.op = "accept" /\ last.handler # "run_find_octavi_device") =>
        /\ last.runs # << >>
        /\ last.runs[1].fn = "run_sudo_command"
        /\ last.runs[1].password = last.arg[1]
        /\ last.runs[1].spawn.argv[3] =
               ECHO \o last.arg[1] \o PIPE_SUDO \o Command(last.handler, last.stage)
        /\ last.runs[1].cachedBefore
        /\ last.notified # << >>
        /\ last.notified[1] = TRUE

\* C18's case: Trigger Rules prompted, the right password typed, the command
\* run with it after it was stored.
C18_Witness ==
    /\ last.op = "accept"
    /\ last.handler = "trigger_rules"
    /\ last.arg = Some(SudoPassword)
    /\ Len(last.runs) = 1
    /\ last.runs[1].exitOk
    /\ last.runs[1].cachedBefore
    /\ last.notified = << TRUE >>
    /\ plain = Some(SudoPassword)

\* C19: once a credential has been discarded for an authentication failure,
\* the cache is filled again only by the acceptance of a password dialog.
C19_NoRecacheAfterInvalidation ==
    [][ ( /\ cached_by = "auth_failure"
          /\ cached_password = None
          /\ cached_password' # None )
        => last'.op = "accept" ]_vars

\* the last step was a run_find_octavi_device call returning with a password
FindRequested(l) ==
    /\ l.handler = "run_find_octavi_device"
    /\ l.op \in {"click", "accept"}
    /\ l.done

\* a run_find_octavi_device call that obtains a password adds one timer
\* holding it; a pending timer leaves the queue only by firing, which starts
\* find_octavi_device with the timer's password; the search spawns all its
\* commands with that password on stdin
TimerDiscipline ==
    [][ /\ FindRequested(last') =>
              timers' = Append(timers, IF last'.op = "accept" THEN last'.arg[1]
                                       ELSE StoredPassword)
        /\ (timers' # timers /\ ~FindRequested(last')) =>
              /\ last'.op = "timer"
              /\ timers # << >>
              /\ timers' = Tail(timers)
              /\ last'.arg = Some(Head(timers))
              /\ stack' = Append(stack, stack'[Len(stack')])
              /\ stack'[Len(stack')].handler = "find_octavi_device"
              /\ stack'[Len(stack')].pc = "pe1"
              /\ stack'[Len(stack')].password = Some(Head(timers))
        /\ last'.op = "search" =>
              /\ last'.arg = Top.password
              /\ Len(last'.runs) >= last'.env.n
              /\ \A i \in DOMAIN last'.runs :
                    /\ last'.runs[i].password = Top.password[1]
                    /\ last'.runs[i].spawn.input = Some(Utf8Encode(Top.password[1])) ]_vars

\* C20: a run_find_octavi_device call that obtains a password, from the cache
\* or from the accepted dialog, schedules one find_octavi_device execution
\* with that password, which nothing cancels and which runs once, with that
\* password; and while the window is open and a timer is pending, a timer
\* fires.
C20_DeferredSearchOnce ==
    /\ TimerDiscipline
    /\ (timers # << >>) ~> (closed \/ last.op = "timer")

\* C20's case: the search runs with the password captured when it was
\* scheduled, a password sudo rejects, although the cache has come to hold
\* another one since.
C20_Witness ==
    /\ last.op = "search"
    /\ last.arg = Some(PW_WRONG)
    /\ plain = Some(SudoPassword)
    /\ last.runs # << >>
    /\ last.runs[1].password = PW_WRONG
    /\ timers = << >>

\* the step was a button handler's single run_sudo_command call, returned,
\* whose command failed without "incorrect password", in any letter case, in
\* its stderr
NonAuthFailure(l) ==
    /\ l.op \in {"click", "accept"}
    /\ l.done
    /\ l.handler \notin {"run_find_octavi_device", "find_octavi_device"}
    /\ Len(l.runs) = 1
    /\ l.runs[1].fn = "run_sudo_command"
    /\ ~l.runs[1].exitOk
    /\ ~Contains(Lower(l.runs[1].stderr), INCORRECT_PASSWORD)

\* C21: a run_sudo_command call whose command fails without "incorrect
\* password" in its stderr leaves the credential the command ran with in the
\* cache: a call that took the password from the cache changes neither
\* ciphertext nor timestamp nor status and notifies nobody, a call that
\* prompted sends no notification after the TRUE of its cache_password; and a
\* get_password() right after the call yields a password with which the next
\* call runs without prompting.
C21_NonAuthFailureKeepsCache ==
    [][ NonAuthFailure(last') =>
        /\ last'.op = "click" =>
              /\ UNCHANGED << cached_password, cache_time, active >>
              /\ last'.notified = << >>
        /\ last'.op = "accept" =>
              /\ last'.notified = << TRUE >>
              /\ cache_time' = Some(now)
        /\ cached_password' # None
        /\ StoredPassword' = last'.runs[1].password
        /\ Truthy(get_password(CacheObject', now').ret) ]_vars

=============================================================================
